---- MODULE Spec2Model ----
(***************************************************************************)
(* CoolishReader: the rating subsystem of the EPUB reader.                 *)
(*                                                                         *)
(*   hashCreate   book path -> ledger address (sha256, uppercase, remap    *)
(*                of the digits 0-8, filler suffix)                        *)
(*   push_rating  tryte-encodes a rating JSON and submits a zero-value     *)
(*                transfer to the address                                  *)
(*   get_rating   queries the records at an address, decodes each one and  *)
(*                folds them into a summary                                *)
(*                                                                         *)
(* JavaScript strings are modelled as sequences of character codes, so     *)
(* that toUpperCase, charCodeAt, indexOf and the tryte codec are computed  *)
(* the way the code computes them.                                         *)
(***************************************************************************)
EXTENDS Integers, Sequences, FiniteSets, TLC

VARIABLES
    returned,   \* returned[p]: the addresses hashCreate has returned for path p
    hashCalls,  \* hashCalls[p]: number of completed hashCreate(p) calls
    codec,      \* one rating value on its way through the codec
    ledger,     \* the transaction objects the ledger holds, oldest first
    sends,      \* the sendTransfer calls made by push_rating, oldest first
    calls,      \* the get_rating calls, by call id
    tmp,        \* the undeclared global written by get_rating's callback
    voting,     \* whether the voting modal carries the class md-show
    location,   \* the displayed page and total of the last relocation event
    disabled,   \* the controls among $prev, $next that carry the class disabled
    trim,       \* one string on its way through rtrim
    remap,      \* one digest on its way through hashCreate's loop
    server,     \* the express application: its file, environment and responses
    marks,      \* settings.bookmarks and the list items of BookmarksController
    sidebar,    \* reader.sidebarOpen and the classes of the sidebar elements
    nav,        \* the rendition navigation calls made by keys and buttons
    url,        \* one page URL on its way through getBookPath
    queue       \* EPUBJS.core.queue: its items and the items already run

vars == <<returned, hashCalls, codec, ledger, sends, calls, tmp, voting, location,
          disabled, trim, remap, server, marks, sidebar, nav, url, queue>>

hashVars  == <<returned, hashCalls>>
codecVars == <<codec>>
storeVars == <<ledger, sends, calls, tmp>>
uiVars    == <<voting, location, disabled>>
unitVars  == <<trim, remap>>
shellVars == <<server, marks, sidebar, nav, url, queue>>

----------------------------------------------------------------------------
(* Bounds *)

MaxHashCalls == 2      \* hashCreate calls in the address run
MaxPad == 4            \* filler symbols appended to a message in the codec run
FragmentLen == 30      \* length of a signatureMessageFragment (2187 in the client)
MaxSends == 1          \* push_rating calls
NumCalls == 2          \* get_rating calls
MaxSuccess == 3        \* records drawn for the summary run
MaxTotal == 3          \* displayed pages of a section in the reader run
MaxTrimLen == 4        \* length of the strings given to rtrim
MaxTrimCalls == 2      \* successive rtrim calls on one string
MaxDigestLen == 65     \* length of the digests given to hashCreate's loop
MaxClicks == 2        \* clicks on the submit control of one book
MaxSpawn == 1         \* items one item's function enqueues in turn
MaxItems == 3         \* items enqueued by callers of the queue
MaxFragmentLen == 4   \* symbols of a URL fragment
MaxNavEvents == 3     \* keydown events and button clicks
MaxSidebarCalls == 8  \* show, hide and slider clicks
MaxMarkCalls == 4     \* calls made on the bookmarks
MaxRequests == 2      \* requests made to the server

BookPaths == {1, 2}     \* the books rated in the store runs, two addresses
CallIds == 1..NumCalls

----------------------------------------------------------------------------
(* Characters *)

DigitChars == <<"0", "1", "2", "3", "4", "5", "6", "7", "8", "9">>
UpperChars == <<"A", "B", "C", "D", "E", "F", "G", "H", "I", "J", "K", "L", "M",
                "N", "O", "P", "Q", "R", "S", "T", "U", "V", "W", "X", "Y", "Z">>
LowerChars == <<"a", "b", "c", "d", "e", "f", "g", "h", "i", "j", "k", "l", "m",
                "n", "o", "p", "q", "r", "s", "t", "u", "v", "w", "x", "y", "z">>

IndexIn(seq, c) == CHOOSE i \in DOMAIN seq : seq[i] = c

Range(seq) == {seq[i] : i \in DOMAIN seq}
Punctuation == {"{", "}", ":", "\""}

\* The character codes of the characters the rating code handles.
CharCodes ==
    [c \in Range(DigitChars) \cup Range(UpperChars) \cup Range(LowerChars) \cup Punctuation |->
        IF c \in Range(DigitChars) THEN 47 + IndexIn(DigitChars, c)
        ELSE IF c \in Range(UpperChars) THEN 64 + IndexIn(UpperChars, c)
        ELSE IF c \in Range(LowerChars) THEN 96 + IndexIn(LowerChars, c)
        ELSE IF c = "{" THEN 123
        ELSE IF c = "}" THEN 125
        ELSE IF c = ":" THEN 58
        ELSE 34]

\* The character code of a one-character literal.
Ord(c) == CharCodes[c]

\* A string literal, written as the sequence of its characters.
Str(chars) == [i \in DOMAIN chars |-> Ord(chars[i])]

\* str[i] of JavaScript: the character at 0-based index i, or undefined.
undefined == -1
CharAt(str, i) == IF i >= 0 /\ i < Len(str) THEN str[i + 1] ELSE undefined

\* str.substr(start, length) and str.substr(start) for start >= 0.
substr(str, start, length) ==
    LET last == IF start + length > Len(str) THEN Len(str) ELSE start + length
    IN  IF start >= Len(str) \/ length <= 0 THEN <<>> ELSE SubSeq(str, start + 1, last)
substrFrom(str, start) ==
    IF start >= Len(str) THEN <<>> ELSE SubSeq(str, start + 1, Len(str))

toUpperCase(str) ==
    [i \in DOMAIN str |-> IF str[i] >= 97 /\ str[i] <= 122 THEN str[i] - 32 ELSE str[i]]

----------------------------------------------------------------------------
(* Address derivation: hashCreate *)

DigestLen == 64
RemapBound == 65
FillerLen == 17

HexLower == Str(<<"0", "1", "2", "3", "4", "5", "6", "7", "8", "9",
                  "a", "b", "c", "d", "e", "f">>)

\* Book paths are numbered.  sha256 is the vendored js-sha256; what the
\* rating code relies on is that it maps a path to a fixed string of 64
\* lowercase hex characters.  Path k is given the k-th rotation of the hex
\* alphabet as its digest, so that over the paths every hex character
\* occurs at every position.
AllPaths == 1..Len(HexLower)
Rot(k) == [i \in 1..DigestLen |-> HexLower[((i - 1 + k) % Len(HexLower)) + 1]]
sha256(str) == Rot(str)

\* One if-statement of the loop body:
\*   if (str[i] == from) str = str.substr(0,i) + to + str.substr(i+1);
IfRemap(str, i, from, to) ==
    IF CharAt(str, i) = Ord(from)
    THEN substr(str, 0, i) \o <<Ord(to)>> \o substrFrom(str, i + 1)
    ELSE str

\* Variants of the loop body: the if-statement for '8' missing; the first
\* if-statement writing '1' instead of 'G'; a tenth if-statement for '9'.
RemapAt_no8(str, i) ==
    LET s0 == IfRemap(str, i, "0", "G")
        s1 == IfRemap(s0, i, "1", "H")
        s2 == IfRemap(s1, i, "2", "I")
        s3 == IfRemap(s2, i, "3", "J")
        s4 == IfRemap(s3, i, "4", "K")
        s5 == IfRemap(s4, i, "5", "L")
        s6 == IfRemap(s5, i, "6", "M")
        s7 == IfRemap(s6, i, "7", "N")
    IN  s7
RemapAt_twice(str, i) ==
    LET s0 == IfRemap(str, i, "0", "1")
        s1 == IfRemap(s0, i, "1", "H")
        s2 == IfRemap(s1, i, "2", "I")
        s3 == IfRemap(s2, i, "3", "J")
        s4 == IfRemap(s3, i, "4", "K")
        s5 == IfRemap(s4, i, "5", "L")
        s6 == IfRemap(s5, i, "6", "M")
        s7 == IfRemap(s6, i, "7", "N")
        s8 == IfRemap(s7, i, "8", "O")
    IN  s8
RemapAt_nine(str, i) ==
    LET s0 == IfRemap(str, i, "0", "G")
        s1 == IfRemap(s0, i, "1", "H")
        s2 == IfRemap(s1, i, "2", "I")
        s3 == IfRemap(s2, i, "3", "J")
        s4 == IfRemap(s3, i, "4", "K")
        s5 == IfRemap(s4, i, "5", "L")
        s6 == IfRemap(s5, i, "6", "M")
        s7 == IfRemap(s6, i, "7", "N")
        s8 == IfRemap(s7, i, "8", "O")
        s9 == IfRemap(s8, i, "9", "P")
    IN  s9

\* Variant: an index past the end of the string reads as '0', and 'G' is
\* spliced in there.
RemapAt_pastEnd(str, i) ==
    LET s0 == IfRemap(str, i, "0", "G")
        s1 == IfRemap(s0, i, "1", "H")
        s2 == IfRemap(s1, i, "2", "I")
        s3 == IfRemap(s2, i, "3", "J")
        s4 == IfRemap(s3, i, "4", "K")
        s5 == IfRemap(s4, i, "5", "L")
        s6 == IfRemap(s5, i, "6", "M")
        s7 == IfRemap(s6, i, "7", "N")
        s8 == IfRemap(s7, i, "8", "O")
    IN  IF i >= Len(str) THEN s8 \o <<Ord("G")>> ELSE s8

\* The nine if-statements of one iteration, in program order.
RemapAt(str, i) ==
    LET s0 == IfRemap(str, i, "0", "G")
        s1 == IfRemap(s0, i, "1", "H")
        s2 == IfRemap(s1, i, "2", "I")
        s3 == IfRemap(s2, i, "3", "J")
        s4 == IfRemap(s3, i, "4", "K")
        s5 == IfRemap(s4, i, "5", "L")
        s6 == IfRemap(s5, i, "6", "M")
        s7 == IfRemap(s6, i, "7", "N")
        s8 == IfRemap(s7, i, "8", "O")
    IN  s8

RECURSIVE RemapLoop(_, _)
RemapLoop(str, i) ==
    IF i < RemapBound
    THEN LET next == RemapAt(str, i)
         IN  IF Len(next) >= 0 THEN RemapLoop(next, i + 1) ELSE next
    ELSE str

\* Variant: one filler character more.
Filler_long == [i \in 1..(FillerLen + 1) |-> Ord("9")]

\* str + '99999999999999999'
Filler == [i \in 1..FillerLen |-> Ord("9")]

\* Variant: the working string is the shared global tmp, never reset.
hashCreate_global(str) ==
    RemapLoop(toUpperCase(tmp \o sha256(str)), 0) \o Filler

hashCreate(str) ==
    LET digest == sha256(str)
        upper  == toUpperCase(digest)
    IN  RemapLoop(upper, 0) \o Filler

RECURSIVE SumOver(_, _)
SumOver(f, S) ==
    IF S = {} THEN 0
    ELSE LET x == CHOOSE y \in S : TRUE IN f[x] + SumOver(f, S \ {x})

\* hashCreate from the uppercased digest on, one loop iteration at a time:
\* the loop test with the body, and the loop exit with the statements after it.
RemapIteration ==
    /\ remap.stage = "loop"
    /\ remap.i < RemapBound
    /\ remap' = [remap EXCEPT !.str = RemapAt(remap.str, remap.i), !.i = @ + 1]
    /\ UNCHANGED <<hashVars, codecVars, storeVars, uiVars, trim, shellVars>>
RemapReturn ==
    /\ remap.stage = "loop"
    /\ ~(remap.i < RemapBound)
    /\ remap' = [remap EXCEPT !.str = @ \o Filler, !.stage = "returned"]
    /\ UNCHANGED <<hashVars, codecVars, storeVars, uiVars, trim, shellVars>>

\* hashCreate on each book path.
Address == [p \in AllPaths |-> hashCreate(p)]

HashCreateCall(p) ==
    /\ SumOver(hashCalls, AllPaths) < MaxHashCalls
    /\ returned' = [returned EXCEPT ![p] = @ \cup {Address[p]}]
    /\ hashCalls' = [hashCalls EXCEPT ![p] = @ + 1]
    /\ UNCHANGED <<codecVars, storeVars, uiVars, unitVars, shellVars>>

----------------------------------------------------------------------------
(* JavaScript values used by the rating code *)

\* null, as returned by toTrytes / fromTrytes on input they reject.  It is
\* distinct from every string, whose characters are non-negative codes.
null == <<undefined>>

\* Numbers: an exact fraction in lowest terms, or NaN.
Num(n) == [kind |-> "num", num |-> n, den |-> 1]
NaN == [kind |-> "NaN", num |-> 0, den |-> 1]
Infinity == [kind |-> "Infinity", num |-> 1, den |-> 1]

RECURSIVE Gcd(_, _)
Gcd(a, b) == IF b = 0 THEN a ELSE Gcd(b, a % b)

\* a + b on numbers whose finite values are integers.
JSAdd(a, b) ==
    IF a.kind = "NaN" \/ b.kind = "NaN" THEN NaN
    ELSE IF a.kind = "Infinity" \/ b.kind = "Infinity" THEN Infinity
    ELSE Num(a.num + b.num)

\* a / b for a a non-negative integer or NaN and b a non-negative integer.
JSDiv(a, b) ==
    IF a.kind = "NaN" \/ b.kind = "NaN" THEN NaN
    ELSE IF b.num = 0 THEN (IF a.num = 0 THEN NaN ELSE Infinity)
    ELSE LET g == Gcd(a.num, b.num)
         IN  [kind |-> "num", num |-> a.num \div g, den |-> b.num \div g]

\* The value of the "rating" property: a string or a number.
StringValue(s) == [type |-> "string", str |-> s, n |-> 0]
NumberValue(n) == [type |-> "number", str |-> <<>>, n |-> n]

RECURSIVE NumToStr(_)
NumToStr(n) ==
    IF n < 10 THEN <<48 + n>> ELSE NumToStr(n \div 10) \o <<48 + (n % 10)>>

\* String(value): the property key a value is converted to.
ToPropertyKey(v) == IF v.type = "string" THEN v.str ELSE NumToStr(v.n)

IsDigit(c) == c >= 48 /\ c <= 57

RECURSIVE DigitsToNum(_, _)
DigitsToNum(str, acc) ==
    IF str = <<>> \/ ~IsDigit(Head(str)) THEN acc
    ELSE DigitsToNum(Tail(str), 10 * acc + (Head(str) - 48))

\* parseInt(value): the leading decimal digits of String(value), NaN if none.
parseInt(v) ==
    LET s == ToPropertyKey(v)
    IN  IF s = <<>> \/ ~IsDigit(Head(s)) THEN NaN ELSE Num(DigitsToNum(s, 0))

----------------------------------------------------------------------------
(* JSON of the rating object {"rating": value} *)

RatingPrefix == Str(<<"{", "\"", "r", "a", "t", "i", "n", "g", "\"", ":">>)
Quote == Ord("\"")
CloseBrace == Ord("}")

\* JSON.stringify({"rating": value}) for a value that is a string without
\* characters to escape, or a non-negative integer.
JSONstringify(v) ==
    IF v.type = "string"
    THEN RatingPrefix \o <<Quote>> \o v.str \o <<Quote>> \o <<CloseBrace>>
    ELSE RatingPrefix \o NumToStr(v.n) \o <<CloseBrace>>

IsPrefix(pre, str) ==
    Len(pre) <= Len(str) /\ SubSeq(str, 1, Len(pre)) = pre

\* JSON.parse(text) followed by the read of res["rating"].  The texts that
\* reach it are the rating objects written by JSONstringify and texts that
\* are no JSON at all (the empty string, null from fromTrytes); on the
\* latter JSON.parse or the property read throws.
JSONparse(text) ==
    LET n    == Len(text)
        body == IF n > Len(RatingPrefix) + 1
                THEN SubSeq(text, Len(RatingPrefix) + 1, n - 1) ELSE <<>>
        isObj == /\ text # null
                 /\ IsPrefix(RatingPrefix, text)
                 /\ n > Len(RatingPrefix) + 1
                 /\ text[n] = CloseBrace
        isStr == /\ Len(body) >= 2
                 /\ body[1] = Quote
                 /\ body[Len(body)] = Quote
                 /\ \A i \in 2..(Len(body) - 1) : body[i] # Quote /\ body[i] # 92
        isNum == /\ Len(body) >= 1
                 /\ \A i \in 1..Len(body) : IsDigit(body[i])
                 /\ (Len(body) > 1 => body[1] # 48)
    IN  IF isObj /\ isStr
        THEN [threw |-> FALSE, rating |-> StringValue(SubSeq(body, 2, Len(body) - 1))]
        ELSE IF isObj /\ isNum
        THEN [threw |-> FALSE, rating |-> NumberValue(DigitsToNum(body, 0))]
        ELSE [threw |-> TRUE, rating |-> NumberValue(0)]

----------------------------------------------------------------------------
(* Tryte codec of the ledger client, and rtrim *)

tryteAlphabet == Str(<<"9", "A", "B", "C", "D", "E", "F", "G", "H", "I", "J", "K", "L", "M",
                       "N", "O", "P", "Q", "R", "S", "T", "U", "V", "W", "X", "Y", "Z">>)

\* t.indexOf(c): 0-based index of c in the alphabet, -1 when absent.
indexOf(t, c) ==
    IF \E i \in DOMAIN t : t[i] = c THEN (CHOOSE i \in DOMAIN t : t[i] = c) - 1 ELSE -1

RECURSIVE toTrytesFrom(_, _)
toTrytesFrom(e, r) ==
    IF e = <<>> THEN r
    ELSE LET i == Head(e)
             o == i % 27
         IN  IF 255 < i THEN null
             ELSE toTrytesFrom(Tail(e), r \o <<tryteAlphabet[o + 1], tryteAlphabet[((i - o) \div 27) + 1]>>)

\* Variant: the two symbols of each character in the opposite order.
toTrytes_swapped(e) ==
    IF \E k \in DOMAIN e : 255 < e[k] THEN null
    ELSE [k \in 1..(2 * Len(e)) |->
            IF k % 2 = 1 THEN tryteAlphabet[((e[(k + 1) \div 2] - (e[(k + 1) \div 2] % 27)) \div 27) + 1]
            ELSE tryteAlphabet[(e[k \div 2] % 27) + 1]]

\* iota.utils.toTrytes: two symbols per character.
toTrytes(e) == toTrytesFrom(e, <<>>)

RECURSIVE fromTrytesFrom(_, _)
fromTrytesFrom(e, r) ==
    IF e = <<>> THEN r
    ELSE LET o == indexOf(tryteAlphabet, e[1]) + 27 * indexOf(tryteAlphabet, e[2])
         IN  fromTrytesFrom(SubSeq(e, 3, Len(e)), r \o <<o>>)

\* iota.utils.fromTrytes: null on an odd number of symbols.
fromTrytes(e) == IF Len(e) % 2 # 0 THEN null ELSE fromTrytesFrom(e, <<>>)

\* str.slice(begin) and str.slice(0, end) with JavaScript's negative indices.
sliceFrom(str, begin) ==
    LET b == IF begin < 0 THEN (IF Len(str) + begin < 0 THEN 0 ELSE Len(str) + begin)
             ELSE begin
    IN  IF b >= Len(str) THEN <<>> ELSE SubSeq(str, b + 1, Len(str))
sliceTo(str, end) ==
    LET e == IF end < 0 THEN (IF Len(str) + end < 0 THEN 0 ELSE Len(str) + end)
             ELSE (IF end > Len(str) THEN Len(str) ELSE end)
    IN  IF e <= 0 THEN <<>> ELSE SubSeq(str, 1, e)

\* Variant: every occurrence of char is removed.
rtrim_all(char, str) == SelectSeq(str, LAMBDA c : <<c>> # char)

RECURSIVE rtrim(_, _)
rtrim(char, str) ==
    IF sliceFrom(str, Len(str) - Len(char)) = char
    THEN rtrim(char, sliceTo(str, 0 - Len(char)))
    ELSE str

Nines(n) == [i \in 1..n |-> Ord("9")]

\* rtrim('9', s) called on a string, and again on what it returned.
RtrimCall ==
    /\ Len(trim.results) < MaxTrimCalls
    /\ \E str \in {IF trim.results = <<>> THEN trim.str ELSE trim.results[Len(trim.results)]} :
          trim' = [trim EXCEPT !.results = Append(@, rtrim(<<Ord("9")>>, str))]
    /\ UNCHANGED <<hashVars, codecVars, storeVars, uiVars, remap, shellVars>>

----------------------------------------------------------------------------
(* The codec path of one rating: submit handler -> push_rating -> ledger   *)
(* record -> get_rating's loop body                                        *)

RatingRange == 1..5

\* Values of the "rating" property: the strings "1".."5" of the rate
\* control, the numbers 1..5, and the number 0 of an empty selection.
CodecValues ==
    {StringValue(<<48 + r>>) : r \in RatingRange} \cup {NumberValue(n) : n \in 0..5}

\* The decoding steps of get_rating's loop body on one fragment:
\* rtrim of '9', fromTrytes, JSON.parse, read of res["rating"].
DecodeFragment(fragment) ==
    LET trimmed == rtrim(Str(<<"9">>), fragment)
        res     == fromTrytes(trimmed)
        parsed  == JSONparse(res)
    IN  [tmp |-> trimmed, threw |-> parsed.threw, rating |-> parsed.rating]

CodecStringify ==
    /\ codec.stage = "value"
    /\ codec' = [codec EXCEPT !.stage = "json", !.rating = JSONstringify(codec.value)]
    /\ UNCHANGED <<hashVars, storeVars, uiVars, unitVars, shellVars>>

CodecEncode ==
    /\ codec.stage = "json"
    /\ codec' = [codec EXCEPT !.stage = "message", !.message = toTrytes(codec.rating)]
    /\ UNCHANGED <<hashVars, storeVars, uiVars, unitVars, shellVars>>

\* The ledger stores the message followed by '9' filler.
CodecAttach(n) ==
    /\ codec.stage = "message"
    /\ codec' = [codec EXCEPT !.stage = "fragment",
                              !.signatureMessageFragment = codec.message \o Nines(n)]
    /\ UNCHANGED <<hashVars, storeVars, uiVars, unitVars, shellVars>>

CodecDecode ==
    /\ codec.stage = "fragment"
    /\ \E d \in {DecodeFragment(codec.signatureMessageFragment)} :
          codec' = [codec EXCEPT !.stage = IF d.threw THEN "threw" ELSE "decoded",
                                 !.res = IF d.threw THEN NaN ELSE parseInt(d.rating)]
    /\ UNCHANGED <<hashVars, storeVars, uiVars, unitVars, shellVars>>

----------------------------------------------------------------------------
(* Rating store: push_rating, get_rating and the ledger client *)

\* A key of the rating object.
Key(chars) == Str(chars)
TotalKey == Key(<<"t", "o", "t", "a", "l">>)
AvgKey == Key(<<"a", "v", "g">>)
CountKey(v) == <<48 + v>>

\* var rating = { "5":0, "4":0, "3":0, "2":0, "1":0, "total":success.length, "avg":0 }
InitialRating(success) ==
    [k \in {CountKey(v) : v \in RatingRange} \cup {TotalKey, AvgKey} |->
        IF k = TotalKey THEN Num(Len(success)) ELSE Num(0)]

\* Variant: rating[key] = 1.
Increment_assign(rating, key) ==
    [k \in DOMAIN rating \cup {key} |-> IF k = key THEN Num(1) ELSE rating[k]]

\* rating[key] += 1; a key the object lacks reads as undefined, and
\* undefined + 1 is NaN.
Increment(rating, key) ==
    IF key \in DOMAIN rating
    THEN [rating EXCEPT ![key] = JSAdd(@, Num(1))]
    ELSE [k \in DOMAIN rating \cup {key} |-> IF k = key THEN NaN ELSE rating[k]]

\* Variant: sum = parseInt(res["rating"]).
Accumulate_last(st, d) ==
    IF d.threw
    THEN [st EXCEPT !.tmp = d.tmp, !.threw = TRUE]
    ELSE [rating |-> Increment(st.rating, ToPropertyKey(d.rating)),
          sum    |-> parseInt(d.rating),
          tmp    |-> d.tmp,
          threw  |-> FALSE]

\* The statements of the loop body that follow the decoding d of the record:
\* rating[res["rating"]] += 1; sum += parseInt(res["rating"]).
Accumulate(st, d) ==
    IF d.threw
    THEN [st EXCEPT !.tmp = d.tmp, !.threw = TRUE]
    ELSE [rating |-> Increment(st.rating, ToPropertyKey(d.rating)),
          sum    |-> JSAdd(st.sum, parseInt(d.rating)),
          tmp    |-> d.tmp,
          threw  |-> FALSE]

\* One iteration of the for loop over success; st holds rating, sum, the
\* global tmp, and whether an exception has left the callback.
LoopBody(st, tx) == Accumulate(st, DecodeFragment(tx.signatureMessageFragment))

RECURSIVE ForLoop(_, _, _)
ForLoop(success, x, st) ==
    IF x < Len(success) /\ ~st.threw
    THEN ForLoop(success, x + 1, LoopBody(st, success[x + 1]))
    ELSE st

\* The statements after the loop: avg = sum / success.length; rating["avg"] = avg.
SetAverage(st, success) ==
    [threw  |-> st.threw,
     rating |-> [st.rating EXCEPT ![AvgKey] = JSDiv(st.sum, Num(Len(success)))],
     tmp    |-> st.tmp]

\* Variant: tmp is not reset on entry, and the first fragment is appended to
\* what an earlier callback left in it.
RunCallback_stale(g, success) ==
    SetAverage(ForLoop(IF success = <<>> THEN success
                       ELSE [success EXCEPT ![1].signatureMessageFragment = g.tmp \o @],
                       0,
                       [rating |-> InitialRating(success), sum |-> Num(0),
                        tmp |-> g.tmp, threw |-> FALSE]),
               success)

\* The success branch of the findTransactionObjects callback, run on the
\* globals g it finds: the summary handed to callback(rating), or threw.
RunCallback(g, success) ==
    SetAverage(ForLoop(success, 0, [rating |-> InitialRating(success), sum |-> Num(0),
                                    tmp |-> <<>>, threw |-> FALSE]),
               success)

\* The transaction object the ledger holds for one transfer.
TransactionObject(transfer) ==
    [address |-> transfer.address,
     value   |-> transfer.value,
     signatureMessageFragment |->
        transfer.message \o Nines(FragmentLen - Len(transfer.message))]

\* The values $rate.val() yields: the string of a selected option, or the
\* empty string when nothing is selected.
RateOptions == {5}
RateValues == {StringValue(<<48 + r>>) : r \in RateOptions} \cup {StringValue(<<>>)}

\* Variant: a second transfer to the same address rides along.
push_rating_two(book_addr, rating) ==
    LET message   == toTrytes(rating)
        transfers == <<[value |-> 0, address |-> book_addr, message |-> message],
                       [value |-> 0, address |-> book_addr, message |-> <<>>]>>
    IN  [book_addr |-> book_addr, rating |-> rating,
         seed |-> book_addr, depth |-> 3, minWeightMagnitude |-> 14,
         transfers |-> transfers, state |-> "pending"]

\* push_rating(book_addr, rating): the call's parameters, the arguments of
\* its sendTransfer call, and the state of that call.
push_rating(book_addr, rating) ==
    LET message   == toTrytes(rating)
        transfers == <<[value |-> 0, address |-> book_addr, message |-> message]>>
    IN  [book_addr |-> book_addr, rating |-> rating,
         seed |-> book_addr, depth |-> 3, minWeightMagnitude |-> 14,
         transfers |-> transfers, state |-> "pending"]

\* Variant: the value of the rate control is passed on as it is.
\* Variant: a click for a book that already has a submission submits nothing.
VotingSubmit_once(p, val) ==
    /\ returned' = [returned EXCEPT ![p] = @ \cup {Address[p]}]
    /\ hashCalls' = [hashCalls EXCEPT ![p] = @ + 1]
    /\ sends' = IF \E s \in DOMAIN sends : sends[s].book_addr = Address[p]
                THEN sends
                ELSE Append(sends, push_rating(Address[p], JSONstringify(
                         IF val = StringValue(<<>>) THEN NumberValue(0) ELSE val)))
    /\ voting' = FALSE
    /\ UNCHANGED <<codecVars, ledger, calls, tmp, location, disabled, unitVars, shellVars>>

VotingSubmit_raw(p, val) ==
    /\ returned' = [returned EXCEPT ![p] = @ \cup {Address[p]}]
    /\ hashCalls' = [hashCalls EXCEPT ![p] = @ + 1]
    /\ sends' = Append(sends, push_rating(Address[p], JSONstringify(val)))
    /\ voting' = FALSE
    /\ UNCHANGED <<codecVars, ledger, calls, tmp, location, disabled, unitVars, shellVars>>

\* $votingSubmit click handler: hashCreate(getBookPath()), the value of the
\* rate control or 0, JSON.stringify, push_rating.
VotingSubmit(p, val) ==
    /\ LET addr        == Address[p]
           value       == IF val = StringValue(<<>>) THEN NumberValue(0) ELSE val
           rating_json == JSONstringify(value)
       IN  /\ returned' = [returned EXCEPT ![p] = @ \cup {addr}]
           /\ hashCalls' = [hashCalls EXCEPT ![p] = @ + 1]
           /\ sends' = Append(sends, push_rating(addr, rating_json))
    /\ voting' = FALSE                       \* $voting.removeClass("md-show")
    /\ UNCHANGED <<codecVars, ledger, calls, tmp, location, disabled, unitVars, shellVars>>

\* Variant: on error the same transfers are submitted again.
SendTransferDone_retry(s, error) ==
    /\ s \in DOMAIN sends
    /\ sends[s].state = "pending"
    /\ IF error
       THEN /\ sends' = Append([sends EXCEPT ![s].state = "error"], sends[s])
            /\ UNCHANGED ledger
       ELSE /\ sends' = [sends EXCEPT ![s].state = "ok"]
            /\ ledger' = Append(ledger, TransactionObject(sends[s].transfers[1]))
    /\ UNCHANGED <<hashVars, codecVars, calls, tmp, uiVars, unitVars, shellVars>>

\* The sendTransfer callback: on success the transfer's record is on the
\* ledger, on error the error is logged.
SendTransferDone(s, error) ==
    /\ s \in DOMAIN sends
    /\ sends[s].state = "pending"
    /\ IF error
       THEN /\ sends' = [sends EXCEPT ![s].state = "error"]
            /\ UNCHANGED ledger
       ELSE /\ sends' = [sends EXCEPT ![s].state = "ok"]
            /\ ledger' = Append(ledger, TransactionObject(sends[s].transfers[1]))
    /\ UNCHANGED <<hashVars, codecVars, calls, tmp, uiVars, unitVars, shellVars>>

\* Variant: the handler takes the class away again when the flag is false.
Relocated_toggle(page, total, atStart, atEnd) ==
    /\ location' = [page |-> page, total |-> total]
    /\ voting' = IF page = total - 1 THEN TRUE ELSE voting
    /\ disabled' = (IF atStart THEN {"prev"} ELSE {})
                       \cup (IF atEnd THEN {"next"} ELSE {})
    /\ UNCHANGED <<hashVars, codecVars, storeVars, unitVars, shellVars>>

\* rendition 'relocated' handler, for an event whose location.end.displayed
\* is {page, total} and whose atStart, atEnd flags are as given.
Relocated(page, total, atStart, atEnd) ==
    /\ location' = [page |-> page, total |-> total]
    /\ voting' = IF page = total - 1 THEN TRUE ELSE voting
    /\ disabled' = disabled \cup (IF atStart THEN {"prev"} ELSE {})
                            \cup (IF atEnd THEN {"next"} ELSE {})
    /\ UNCHANGED <<hashVars, codecVars, storeVars, unitVars, shellVars>>

NoCall == [pc |-> "idle", book_addr |-> <<>>, error |-> FALSE, success |-> <<>>,
           rating |-> InitialRating(<<>>)]

\* get_rating(book_addr, callback), called with the address its caller
\* derives from the book path: issues findTransactionObjects.
GetRating(c, p) ==
    /\ calls[c].pc = "idle"
    /\ \A b \in CallIds : b < c => calls[b].pc # "idle"   \* call ids in issue order
    /\ LET book_addr == Address[p]
       IN  /\ returned' = [returned EXCEPT ![p] = @ \cup {book_addr}]
           /\ hashCalls' = [hashCalls EXCEPT ![p] = @ + 1]
           /\ calls' = [calls EXCEPT ![c] = [NoCall EXCEPT !.pc = "query", !.book_addr = book_addr]]
    /\ UNCHANGED <<codecVars, ledger, sends, tmp, uiVars, unitVars, shellVars>>

\* Variant: the query is answered with every record the ledger holds.
FindTransactionObjects_all(c, error) ==
    /\ calls[c].pc = "query"
    /\ calls' = [calls EXCEPT ![c].pc = "reply", ![c].error = error,
                              ![c].success = IF error THEN <<>> ELSE ledger]
    /\ UNCHANGED <<hashVars, codecVars, ledger, sends, tmp, uiVars, unitVars, shellVars>>

\* The ledger client answers the query: an error, or the records at the address.
FindTransactionObjects(c, error) ==
    /\ calls[c].pc = "query"
    /\ calls' = [calls EXCEPT ![c].pc = "reply", ![c].error = error,
                              ![c].success = IF error THEN <<>>
                                  ELSE SelectSeq(ledger, LAMBDA tx : tx.address = calls[c].book_addr)]
    /\ UNCHANGED <<hashVars, codecVars, ledger, sends, tmp, uiVars, unitVars, shellVars>>

\* The callback passed to findTransactionObjects, run to completion.
FindCallback(c) ==
    /\ calls[c].pc = "reply"
    /\ IF calls[c].error
       THEN /\ calls' = [calls EXCEPT ![c].pc = "failed"]
            /\ UNCHANGED tmp
       ELSE \E r \in {RunCallback([tmp |-> tmp], calls[c].success)} :
                /\ calls' = [calls EXCEPT ![c].pc = IF r.threw THEN "threw" ELSE "done",
                                          ![c].rating = r.rating]
                /\ tmp' = r.tmp
    /\ UNCHANGED <<hashVars, codecVars, ledger, sends, uiVars, unitVars, shellVars>>

----------------------------------------------------------------------------
(* Specifications *)

HashIdle == /\ returned = [p \in AllPaths |-> {}]
            /\ hashCalls = [p \in AllPaths |-> 0]
CodecIdle == codec = [stage |-> "idle", value |-> NumberValue(0), rating |-> <<>>,
                      message |-> <<>>, signatureMessageFragment |-> <<>>, res |-> NaN]
StoreIdle == /\ ledger = <<>>
             /\ sends = <<>>
             /\ calls = [c \in CallIds |-> NoCall]
             /\ tmp = <<>>
UiIdle == /\ voting = FALSE
          /\ location = [page |-> 0, total |-> 0]
          /\ disabled = {}
TrimIdle == trim = [str |-> <<>>, results |-> <<>>]
RemapIdle == remap = [stage |-> "idle", digest |-> <<>>, str |-> <<>>, i |-> 0]
UnitIdle == TrimIdle /\ RemapIdle
ShellIdle ==
    /\ server = [file |-> "", PORT |-> undefined, port |-> undefined,
                 requests |-> <<>>]
    /\ marks = [bookmarks |-> <<>>, items |-> <<>>, counter |-> 0, n |-> 0,
                cleared |-> FALSE,
                last |-> [op |-> "none", cfi |-> 0, event |-> "none"]]
    /\ sidebar = [sidebarOpen |-> FALSE, open |-> FALSE, closed |-> FALSE,
                  slider |-> "icon-menu", located |-> FALSE, n |-> 0,
                  threw |-> FALSE]
    /\ nav = [direction |-> "unopened", keylock |-> FALSE, active |-> {},
              timers |-> <<>>, n |-> 0, next |-> 0, prev |-> 0,
              last |-> [source |-> "none", keyCode |-> 0, calls |-> <<>>,
                        wasDisabled |-> FALSE]]
    /\ url = [query |-> <<>>, fragment |-> <<>>,
              plain |-> [kind |-> "none", str |-> <<>>],
              marked |-> [kind |-> "none", str |-> <<>>]]
    /\ queue = [q |-> <<>>, ran |-> <<>>, made |-> 0, last |-> "none"]
Idle == UiIdle /\ UnitIdle /\ ShellIdle

\* Address derivation on every book path.
InitHash == HashIdle /\ CodecIdle /\ StoreIdle /\ Idle
NextHash == \E p \in AllPaths : HashCreateCall(p)
SpecHash == InitHash /\ [][NextHash]_vars

\* One rating value through the codec.
InitCodec ==
    /\ HashIdle /\ StoreIdle /\ Idle
    /\ \E v \in CodecValues :
          codec = [stage |-> "value", value |-> v, rating |-> <<>>,
                   message |-> <<>>, signatureMessageFragment |-> <<>>, res |-> NaN]
NextCodec ==
    \/ CodecStringify
    \/ CodecEncode
    \/ \E n \in 0..MaxPad : CodecAttach(n)
    \/ CodecDecode
SpecCodec == InitCodec /\ [][NextCodec]_vars

\* The rating store against a ledger that starts empty.
Init == HashIdle /\ CodecIdle /\ StoreIdle /\ Idle
Next ==
    \/ /\ Len(sends) < MaxSends
       /\ \E p \in BookPaths, val \in RateValues : VotingSubmit(p, val)
    \/ \E s \in 1..MaxSends, error \in BOOLEAN : SendTransferDone(s, error)
    \/ \E c \in CallIds, p \in BookPaths : GetRating(c, p)
    \/ \E c \in CallIds, error \in BOOLEAN : FindTransactionObjects(c, error)
    \/ \E c \in CallIds : FindCallback(c)
Spec == Init /\ [][Next]_vars

\* The same, with the ledger client answering every query it was sent and
\* the event loop running every callback that is due.  FindCallback(c) is
\* enabled exactly while calls[c].pc = "reply" and each of its steps leaves
\* that state, so weak fairness of it is written as the state it cannot
\* stay in.
SpecLive ==
    /\ Spec
    /\ \A c \in CallIds :
          /\ WF_vars(\E error \in BOOLEAN : FindTransactionObjects(c, error))
          /\ []<>(calls[c].pc # "reply")

\* get_rating against a ledger that already holds records: every list of
\* up to MaxSuccess records at the address of book path 1, each carrying a
\* rating message or no message at all.
FoldValues ==
    {StringValue(<<48 + r>>) : r \in RatingRange} \cup {NumberValue(0), NumberValue(4)}
FoldMessages == {toTrytes(JSONstringify(v)) : v \in FoldValues} \cup {<<>>}
InitFold ==
    /\ HashIdle /\ CodecIdle /\ Idle
    /\ sends = <<>>
    /\ calls = [c \in CallIds |-> NoCall]
    /\ tmp = <<>>
    /\ LET addr    == Address[1]
           records == {TransactionObject([address |-> addr, value |-> 0, message |-> m]) :
                          m \in FoldMessages}
       IN  \E n \in 0..MaxSuccess : ledger \in [1..n -> records]
NextFold ==
    \/ \E p \in BookPaths : GetRating(1, p)
    \/ \E error \in BOOLEAN : FindTransactionObjects(1, error)
    \/ FindCallback(1)
SpecFold == InitFold /\ [][NextFold]_vars

\* The rating store against a ledger that already holds records of earlier
\* sessions, with two get_rating calls.
PriorRecord(p, r) ==
    TransactionObject([address |-> Address[p], value |-> 0,
                       message |-> toTrytes(JSONstringify(StringValue(<<48 + r>>)))])
PriorLedgers == {<<>>, <<PriorRecord(1, 3)>>, <<PriorRecord(1, 5), PriorRecord(2, 5)>>}
WriteCalls == {1, 2}
InitWrite ==
    /\ HashIdle /\ CodecIdle /\ Idle
    /\ sends = <<>>
    /\ calls = [c \in CallIds |-> NoCall]
    /\ tmp = <<>>
    /\ ledger \in PriorLedgers
NextWrite ==
    \/ /\ Len(sends) < MaxSends
       /\ \E p \in BookPaths, val \in RateValues : VotingSubmit(p, val)
    \/ \E s \in 1..MaxSends, error \in BOOLEAN : SendTransferDone(s, error)
    \/ \E c \in WriteCalls, p \in BookPaths : GetRating(c, p)
    \/ \E c \in WriteCalls, error \in BOOLEAN : FindTransactionObjects(c, error)
    \/ \E c \in WriteCalls : FindCallback(c)
SpecWrite == InitWrite /\ [][NextWrite]_vars

\* The reader page: relocation events, clicks on the submit control and the
\* completions of the submissions they start.
InitReader == Init
NextReader ==
    \/ \E total \in 1..MaxTotal, page \in 1..MaxTotal, atStart \in BOOLEAN, atEnd \in BOOLEAN :
          page <= total /\ Relocated(page, total, atStart, atEnd)
    \/ /\ Len(sends) < MaxSends
       /\ \E p \in BookPaths, val \in RateValues : VotingSubmit(p, val)
    \/ \E s \in 1..MaxSends, error \in BOOLEAN : SendTransferDone(s, error)
SpecReader == InitReader /\ [][NextReader]_vars

\* rtrim on every string of up to MaxTrimLen symbols, drawn from the filler
\* symbol and the first and last letter of the tryte alphabet.
TrimAlphabet == {Ord("9"), Ord("A"), Ord("Z")}
TrimStrings == UNION {[1..n -> TrimAlphabet] : n \in 0..MaxTrimLen}
InitTrim ==
    /\ HashIdle /\ CodecIdle /\ StoreIdle /\ UiIdle /\ RemapIdle /\ ShellIdle
    /\ \E str \in TrimStrings : trim = [str |-> str, results |-> <<>>]
NextTrim == RtrimCall
SpecTrim == InitTrim /\ [][NextTrim]_vars

\* hashCreate's loop on digests of every length up to MaxDigestLen: the
\* prefixes of the digest of book path 1, continued by its own rotation.
DigestRotations == {1}
Digests ==
    {SubSeq(Rot(k) \o Rot(k), 1, n) : k \in DigestRotations, n \in 0..MaxDigestLen}
InitRemap ==
    /\ HashIdle /\ CodecIdle /\ StoreIdle /\ UiIdle /\ TrimIdle /\ ShellIdle
    /\ \E digest \in Digests :
          remap = [stage |-> "loop", digest |-> digest, str |-> toUpperCase(digest), i |-> 0]
NextRemap == RemapIteration \/ RemapReturn
SpecRemap == InitRemap /\ [][NextRemap]_vars /\ WF_vars(NextRemap)

----------------------------------------------------------------------------
(* Properties of the address derivation *)

AllReturned == UNION {returned[p] : p \in AllPaths}

C2_Length82 ==
    \A a \in AllReturned :
        /\ Len(a) = 82
        /\ \A i \in 66..82 : a[i] = 57

\* C2, amended: every address has length 81: the 64 remapped characters of
\* the digest in positions 0-63, followed by exactly 17 '9' characters.
C2_Length81 ==
    \A a \in AllReturned :
        /\ Len(a) = 81
        /\ \A i \in 1..64 : a[i] = 57 \/ (a[i] >= 65 /\ a[i] <= 79)
        /\ \A i \in 65..81 : a[i] = 57
C2_Witness ==
    \E p \in AllPaths : returned[p] # {} /\ Len(sha256(p)) = 64

\* C3: for a 64-character lowercase hex digest every character of the
\* address is in the alphabet {9, A-Z}.
C3_TryteAlphabet ==
    \A a \in AllReturned : \A i \in 1..Len(a) : a[i] = 57 \/ (a[i] >= 65 /\ a[i] <= 90)
C3_Witness ==
    \E p \in AllPaths :
        /\ returned[p] # {}
        /\ \E i \in 1..64 : sha256(p)[i] >= 48 /\ sha256(p)[i] <= 56
        /\ \E i \in 1..64 : sha256(p)[i] >= 97 /\ sha256(p)[i] <= 102

\* The remap table, by character code: 0-8 become G-O, 9 and A-F stay.
RemapTable(c) ==
    IF c >= 48 /\ c <= 56 THEN c + 23 ELSE c
UpperHex(c) == IF c >= 97 /\ c <= 102 THEN c - 32 ELSE c

\* C4: the remap is position-wise and follows the table: position i of the
\* address is the table entry of the uppercased digest character at i, so a
\* digit remapped to a letter is not remapped a second time.
C4_PositionWise ==
    \A p \in AllPaths : \A a \in returned[p] :
        \A i \in 1..64 : a[i] = RemapTable(UpperHex(sha256(p)[i]))
C4_Witness ==
    \E p \in AllPaths :
        /\ returned[p] # {}
        /\ \A c \in 48..57 : \E i \in 1..64 : sha256(p)[i] = c
        /\ \A c \in 97..102 : \E i \in 1..64 : sha256(p)[i] = c

\* C5 as claimed: every '9' of an address lies in the trailing 17 characters.
C5_NoNineInDigestPart ==
    \A a \in AllReturned :
        \A i \in 1..Len(a) : a[i] = 57 => i > Len(a) - 17

\* C5, amended: in the digest-derived part of an address a '9' stands
\* exactly where the digest has the digit 9, which the remap leaves
\* unchanged; every other '9' lies in the trailing 17-character suffix.
C5_NineOnlyFromDigest ==
    \A p \in AllPaths : \A a \in returned[p] :
        \A i \in 1..Len(a) :
            a[i] = 57 <=> (i > Len(a) - 17 \/ (i <= 64 /\ sha256(p)[i] = 57))
C5_Witness ==
    \E p \in AllPaths : \E a \in returned[p] : \E i \in 1..64 : a[i] = 57

----------------------------------------------------------------------------
(* Properties of the codec and of the summary *)

\* The integer a rating value stands for.
RatingOfValue(v) ==
    IF v.type = "number" THEN v.n
    ELSE IF Len(v.str) = 1 /\ v.str[1] >= 48 /\ v.str[1] <= 57 THEN v.str[1] - 48
    ELSE -1

\* C6: codec round trip: for a rating r in 1..5 the payload push_rating
\* builds from {"rating": r} has two symbols per byte and, padded with
\* trailing '9' and decoded the way get_rating does, yields r.
C6_RoundTrip ==
    /\ codec.stage \in {"message", "fragment", "decoded", "threw"}
          => Len(codec.message) = 2 * Len(codec.rating)
    /\ (codec.stage \in {"decoded", "threw"} /\ RatingOfValue(codec.value) \in 1..5)
          => (codec.stage = "decoded" /\ codec.res = Num(RatingOfValue(codec.value)))
C6_Witness ==
    /\ codec.stage = "decoded"
    /\ codec.value = StringValue(<<53>>)
    /\ Len(codec.signatureMessageFragment) > Len(codec.message)
    /\ codec.res = Num(5)

\* The rating value a record carries: the value whose encoded message, with
\* filler, is the record's fragment; none for a record without rating message.
FragmentOf ==
    [v \in CodecValues |->
        TransactionObject([address |-> <<>>, value |-> 0,
                           message |-> toTrytesFrom(JSONstringify(v), <<>>)]).signatureMessageFragment]
ValuesOfRecord(tx) == {v \in CodecValues : tx.signatureMessageFragment = FragmentOf[v]}
HasRating(tx) == ValuesOfRecord(tx) # {}
RatingOfRecord(tx) == RatingOfValue(CHOOSE v \in ValuesOfRecord(tx) : TRUE)

RECURSIVE SumOfRatings(_)
SumOfRatings(success) ==
    IF success = <<>> THEN 0 ELSE RatingOfRecord(Head(success)) + SumOfRatings(Tail(success))

CountOf(success, v) == Cardinality({x \in 1..Len(success) : RatingOfRecord(success[x]) = v})

SummaryKeys == {<<49>>, <<50>>, <<51>>, <<52>>, <<53>>, Str(<<"t", "o", "t", "a", "l">>), Str(<<"a", "v", "g">>)}

\* C7: with zero records the delivered summary has counts 0, total 0 and
\* avg 0.
C7_EmptyAvgZero ==
    \A c \in CallIds :
        (calls[c].pc = "done" /\ calls[c].success = <<>>)
            => /\ \A k \in SummaryKeys : calls[c].rating[k] = Num(0)
               /\ DOMAIN calls[c].rating = SummaryKeys

\* C8: for a non-empty list of records whose ratings are all in 1..5 the
\* delivered summary has count[v] = number of records with rating v,
\* total = number of records and avg = (sum of the ratings) / total.
C8_Summary ==
    \A c \in CallIds :
        LET success == calls[c].success
            rating  == calls[c].rating
        IN  (/\ calls[c].pc \in {"done", "threw"}
             /\ success # <<>>
             /\ \A x \in 1..Len(success) :
                   HasRating(success[x]) /\ RatingOfRecord(success[x]) \in 1..5)
            => /\ calls[c].pc = "done"
               /\ DOMAIN rating = SummaryKeys
               /\ \A v \in 1..5 : rating[<<48 + v>>] = Num(CountOf(success, v))
               /\ rating[Str(<<"t", "o", "t", "a", "l">>)] = Num(Len(success))
               /\ rating[Str(<<"a", "v", "g">>)].kind = "num"
               /\ rating[Str(<<"a", "v", "g">>)].num * Len(success)
                     = SumOfRatings(success) * rating[Str(<<"a", "v", "g">>)].den
C8_Witness ==
    \E c \in CallIds :
        /\ calls[c].pc = "done"
        /\ Len(calls[c].success) = 3
        /\ \A x \in 1..3 : HasRating(calls[c].success[x])
        /\ <<RatingOfRecord(calls[c].success[1]), RatingOfRecord(calls[c].success[2]),
             RatingOfRecord(calls[c].success[3])>> = <<5, 5, 3>>
        /\ calls[c].rating[<<53>>] = Num(2)
        /\ calls[c].rating[<<51>>] = Num(1)
        /\ calls[c].rating[Str(<<"a", "v", "g">>)] = [kind |-> "num", num |-> 13, den |-> 3]

Orderings(n) == {f \in [1..n -> 1..n] : \A i, j \in 1..n : f[i] = f[j] => i = j}
Permuted(success, f) == [i \in 1..Len(success) |-> success[f[i]]]

\* C9: the summary is order-independent: the callback run on any
\* permutation of the records delivers the same counts, total and average
\* (or fails to deliver, for every order alike).
C9_OrderIndependent ==
    \A c \in CallIds :
        calls[c].pc \in {"done", "threw"}
            => \A f \in Orderings(Len(calls[c].success)) :
                 \E r \in {RunCallback([tmp |-> tmp], Permuted(calls[c].success, f))} :
                    /\ r.threw <=> calls[c].pc = "threw"
                    /\ ~r.threw => r.rating = calls[c].rating
C9_Witness ==
    \E c \in CallIds :
        /\ calls[c].pc = "done"
        /\ Len(calls[c].success) >= 2
        /\ \E x, y \in 1..Len(calls[c].success) :
              /\ HasRating(calls[c].success[x]) /\ HasRating(calls[c].success[y])
              /\ RatingOfRecord(calls[c].success[x]) # RatingOfRecord(calls[c].success[y])

\* The fold over a list of records that all carry a rating: counts of the
\* ratings 1..5, NaN under the key of any other rating present, the total,
\* and sum / total (NaN for no records).
OtherKeys(success) ==
    {NumToStr(RatingOfRecord(success[x])) : x \in 1..Len(success)} \ SummaryKeys
ExpectedSummary(success) ==
    [k \in SummaryKeys \cup OtherKeys(success) |->
        IF k \in OtherKeys(success) THEN NaN
        ELSE IF k = Str(<<"t", "o", "t", "a", "l">>) THEN Num(Len(success))
        ELSE IF k = Str(<<"a", "v", "g">>)
             THEN (IF success = <<>> THEN NaN
                   ELSE [kind |-> "num",
                         num |-> SumOfRatings(success) \div Gcd(SumOfRatings(success), Len(success)),
                         den |-> Len(success) \div Gcd(SumOfRatings(success), Len(success))])
        ELSE Num(CountOf(success, k[1] - 48))]

CallStep == \E c \in CallIds : calls'[c] # calls[c]

\* C10: concurrent get_rating calls are side-effect-free and independent:
\* under every interleaving each call's summary is the fold over exactly the
\* records returned to that call, whatever other callbacks left in tmp, and
\* no step of a get_rating call changes the ledger's records.
C10_Independent ==
    /\ [](\A c \in CallIds :
            calls[c].pc \in {"done", "threw"}
                => IF \A x \in 1..Len(calls[c].success) : HasRating(calls[c].success[x])
                   THEN /\ calls[c].pc = "done"
                        /\ calls[c].rating = ExpectedSummary(calls[c].success)
                   ELSE calls[c].pc = "threw")
    /\ [][CallStep => ledger' = ledger]_vars
C10_Witness ==
    /\ \A c \in {1, 2} : calls[c].pc = "done" /\ calls[c].book_addr = calls[1].book_addr
    /\ calls[1].success # calls[2].success
    /\ \E s \in DOMAIN sends : sends[s].state = "ok"
    /\ tmp # <<>>

----------------------------------------------------------------------------
(* Properties of submission *)

\* The tryte encoding of a text of byte-sized characters: for each character
\* the symbol of its code modulo 27, then the symbol of its code divided by 27.
TrytesOf(text) ==
    [k \in 1..(2 * Len(text)) |->
        IF k % 2 = 1 THEN tryteAlphabet[(text[(k + 1) \div 2] % 27) + 1]
        ELSE tryteAlphabet[(text[k \div 2] \div 27) + 1]]

\* The JSON text of {"rating": "r"} and of {"rating": 0}.
RatingText(r) == Str(<<"{", "\"", "r", "a", "t", "i", "n", "g", "\"", ":", "\"">>)
                    \o <<48 + r>> \o Str(<<"\"", "}">>)
ZeroText == Str(<<"{", "\"", "r", "a", "t", "i", "n", "g", "\"", ":", "0", "}">>)

\* C11: every push_rating(address, rating) call issues exactly one ledger
\* submission, containing exactly one transfer, of value 0, to the given
\* address, whose message is the tryte encoding of the given rating JSON.
C11_OneTransfer ==
    /\ [](\A s \in DOMAIN sends :
            sends[s].transfers = <<[value   |-> 0,
                                    address |-> sends[s].book_addr,
                                    message |-> TrytesOf(sends[s].rating)]>>)
    /\ [][Len(sends') # Len(sends) => sends' = Append(sends, sends'[Len(sends')])]_vars
C11_Witness ==
    \E s \in DOMAIN sends :
        /\ sends[s].rating = RatingText(5)
        /\ sends[s].book_addr = Address[2]
        /\ Len(sends[s].transfers[1].message) = 2 * Len(RatingText(5))

\* The submissions to an address that the ledger client has completed
\* without error, and the records the ledger held before any of them.
OkSends(addr) == {s \in DOMAIN sends : sends[s].state = "ok" /\ sends[s].book_addr = addr}
AllOkSends == {s \in DOMAIN sends : sends[s].state = "ok"}
PriorAt(addr) ==
    SelectSeq(SubSeq(ledger, 1, Len(ledger) - Cardinality(AllOkSends)),
              LAMBDA tx : tx.address = addr)

\* C12: write-then-read: once a push_rating(address, {"rating": r}) has
\* completed without error, the records answered to a get_rating(address)
\* query, and so the total and count[r] of the summary delivered for them,
\* are one higher per such submission than for the ledger without it;
\* submissions to other addresses change nothing.
C12_WriteThenRead ==
    /\ [][\A c \in CallIds :
            (calls[c].pc = "query" /\ calls'[c].pc = "reply" /\ ~calls'[c].error)
                => /\ Len(calls'[c].success)
                        = Len(PriorAt(calls[c].book_addr)) + Cardinality(OkSends(calls[c].book_addr))
                   /\ \A r \in 1..5 :
                        CountOf(calls'[c].success, r)
                            = CountOf(PriorAt(calls[c].book_addr), r)
                              + Cardinality({s \in OkSends(calls[c].book_addr) :
                                                sends[s].rating = RatingText(r)})]_vars
    /\ [](\A c \in CallIds :
            calls[c].pc = "done"
                => /\ calls[c].rating[Str(<<"t", "o", "t", "a", "l">>)] = Num(Len(calls[c].success))
                   /\ \A r \in 1..5 :
                        calls[c].rating[<<48 + r>>] = Num(CountOf(calls[c].success, r)))
C12_Witness ==
    /\ ledger = <<PriorRecord(1, 3), PriorRecord(1, 5)>>
    /\ sends[1].state = "ok" /\ sends[1].rating = RatingText(5)
    /\ calls[1].pc = "done" /\ calls[1].book_addr = Address[1]
    /\ calls[1].rating[Str(<<"t", "o", "t", "a", "l">>)] = Num(1)
    /\ calls[2].pc = "done" /\ calls[2].book_addr = Address[1]
    /\ calls[2].rating[Str(<<"t", "o", "t", "a", "l">>)] = Num(2)
    /\ calls[2].rating[<<53>>] = Num(1)

\* C13: a submission whose rating is out of range or not an integer (0, 6,
\* an empty selection) is rejected before encoding: every submission issued
\* carries a rating in 1..5.
C13_OutOfRangeRejected ==
    \A s \in DOMAIN sends :
        \E r \in 1..5 : sends[s].transfers[1].message = TrytesOf(RatingText(r))

WellFormed(success) == SelectSeq(success, LAMBDA tx : HasRating(tx))

\* C14: one corrupt record among the records returned does not abort the
\* summary: the callback is still invoked, with the summary of the
\* well-formed records.
C14_CorruptSkipped ==
    \A c \in CallIds :
        (/\ calls[c].pc \in {"done", "threw"}
         /\ Len(WellFormed(calls[c].success)) = Len(calls[c].success) - 1)
            => /\ calls[c].pc = "done"
               /\ calls[c].rating = ExpectedSummary(WellFormed(calls[c].success))

\* C15: when the ledger client reports an error for a submission, the error
\* is only logged: no further sendTransfer call is made, no record is added
\* on its behalf, now or later, and nothing the page shows changes.
C15_ErrorOnlyLogged ==
    /\ [][\A s \in DOMAIN sends :
            (sends[s].state = "pending" /\ sends'[s].state = "error")
                => /\ Len(sends') = Len(sends)
                   /\ \A t \in DOMAIN sends : t # s => sends'[t] = sends[t]
                   /\ ledger' = ledger
                   /\ <<voting, location, disabled>>' = <<voting, location, disabled>>]_vars
    /\ [][\A s \in DOMAIN sends : sends[s].state = "error" => sends'[s] = sends[s]]_vars
    /\ [](Len(ledger) = Cardinality({s \in DOMAIN sends : sends[s].state = "ok"}))
C15_Witness ==
    /\ \E s \in DOMAIN sends : sends[s].state = "error" /\ sends[s].rating = RatingText(5)
    /\ ledger = <<>>
    /\ voting

\* C16: every get_rating call eventually delivers an outcome to its caller:
\* the summary when the query succeeds, a 'ratings unavailable' outcome when
\* it fails.
C16_EventuallyDelivered ==
    \A c \in CallIds :
        (calls[c].pc = "query") ~> (calls[c].pc \in {"done", "unavailable"})

RelocatedStep == sends' = sends /\ <<voting, location, disabled>>' # <<voting, location, disabled>>

\* C18: the relocated handler shows the rating prompt exactly when the event
\* reports the final displayed page (page = total), and on no relocation to
\* an earlier page.
C18_ShownOnFinalPage ==
    [][RelocatedStep
          => /\ location'.page = location'.total => voting'
             /\ (voting' /\ ~voting) => location'.page = location'.total]_vars

----------------------------------------------------------------------------
(* Properties of rtrim and of hashCreate's loop *)

\* C19: rtrim('9', s) removes only trailing filler: the result t is a prefix
\* of s, s is t followed by '9's only, t does not end in '9', every '9' of s
\* that precedes another symbol is kept; a second rtrim changes nothing; and
\* the empty string is returned as it is.
C19_OnlyTrailingFiller ==
    trim.results # <<>>
        => LET s == trim.str
               t == trim.results[1]
           IN  /\ Len(t) <= Len(s)
               /\ \A i \in 1..Len(t) : t[i] = s[i]
               /\ \A i \in (Len(t) + 1)..Len(s) : s[i] = 57
               /\ t # <<>> => t[Len(t)] # 57
               /\ \A i, j \in 1..Len(s) :
                     (i < j /\ s[i] = 57 /\ s[j] # 57) => (i <= Len(t) /\ t[i] = 57)
               /\ \A k \in 2..Len(trim.results) : trim.results[k] = t
               /\ s = <<>> => t = <<>>
C19_Witness ==
    /\ trim.str = <<57, 65, 57, 57>>
    /\ trim.results = <<(<<57, 65>>), (<<57, 65>>)>>

\* What hashCreate returns for a digest: the table entry of each uppercased
\* character at the positions the loop visits, the characters beyond them
\* uppercased, and the filler.
ExpectedAddress(digest) ==
    [k \in 1..Len(digest) |->
        IF k <= 65 THEN RemapTable(UpperHex(digest[k])) ELSE UpperHex(digest[k])]
    \o [k \in 1..17 |-> 57]

\* C20: hashCreate is total and pure: on every digest of at most 65
\* characters its loop ends after exactly 65 iterations and it returns,
\* changing nothing but its own working string; on a 64-character digest
\* the 65th iteration (index 64) leaves the string as it is, and the result
\* is the 64 remapped characters followed by the 17 filler characters.
C20_TotalAndPure ==
    /\ [](/\ remap.i <= 65
          /\ remap.stage = "returned"
                => /\ remap.i = 65
                   /\ remap.str = ExpectedAddress(remap.digest)
                   /\ \A p \in AllPaths : remap.digest = sha256(p) => remap.str = Address[p])
    /\ [][(remap.stage = "loop" /\ remap.i = 64 /\ Len(remap.digest) = 64 /\ remap' # remap)
             => (remap'.i = 65 /\ remap'.str = remap.str)]_vars
    /\ [][remap' # remap
             => UNCHANGED <<returned, hashCalls, codec, ledger, sends, calls, tmp,
                            voting, location, disabled, trim>>]_vars
    /\ <>(remap.stage = "returned")
C20_Witness ==
    /\ remap.stage = "returned"
    /\ Len(remap.digest) = 64
    /\ Len(remap.str) = 81
    /\ remap.str[64] # remap.digest[64]

----------------------------------------------------------------------------
(* The static file server: src/server.js and src/unnamed/part_001 *)

\* A request path is the sequence of its segments: <<>> is "/".
PublicAssets == {<<"style.css">>}
ReaderAssets == {<<"js", "reader.js">>, <<"reader.html">>}
RequestPaths ==
    {<<>>, <<"about">>, <<"contact">>, <<"books">>, <<"sleep">>, <<"missing">>}
        \cup PublicAssets \cup ReaderAssets
        \cup {<<"books">> \o a : a \in ReaderAssets}
DefaultPort == 3000

\* express.static(root) mounted at mount: a GET of an existing file under
\* the mount point is answered with that file, anything else goes to next().
Static(mount, assets, method, path) ==
    /\ method = "GET"
    /\ Len(path) >= Len(mount)
    /\ SubSeq(path, 1, Len(mount)) = mount
    /\ SubSeq(path, Len(mount) + 1, Len(path)) \in assets

\* The mount point of express.static('reader/reader') and the path of the
\* route that sends reader.html, in each of the two files.
ReaderMount(file) == IF file = "server.js" THEN <<>> ELSE <<"books">>
ReaderRoute(file) == IF file = "server.js" THEN <<"sleep">> ELSE <<"books">>

\* The router, then the catch-all app.use("*").
Router(file, method, path) ==
    IF Static(<<>>, PublicAssets, method, path) THEN <<"public">> \o path
    ELSE IF Static(ReaderMount(file), ReaderAssets, method, path)
        THEN <<"reader/reader">>
                 \o SubSeq(path, Len(ReaderMount(file)) + 1, Len(path))
    ELSE IF method = "GET" /\ path = <<>> THEN <<"index.html">>
    ELSE IF method = "GET" /\ path = <<"about">> THEN <<"about.html">>
    ELSE IF method = "GET" /\ path = <<"contact">> THEN <<"contact.html">>
    ELSE IF method = "GET" /\ path = ReaderRoute(file)
        THEN <<"reader/reader", "reader.html">>
    ELSE <<"404.html">>

\* The port handed to app.listen.
ListenPort(file, PORT) ==
    IF file = "server.js" THEN DefaultPort
    ELSE IF PORT # undefined THEN PORT ELSE DefaultPort

\* node <file> with process.env.PORT as given.
Start(file, PORT) ==
    /\ server.file = ""
    /\ server' = [server EXCEPT !.file = file, !.PORT = PORT,
                                !.port = ListenPort(file, PORT)]
    /\ UNCHANGED <<hashVars, codecVars, storeVars, uiVars, unitVars,
                   marks, sidebar, nav, url, queue>>

\* One request answered by the running application.
Request(method, path) ==
    /\ server.file # ""
    /\ Len(server.requests) < MaxRequests
    /\ server' = [server EXCEPT !.requests =
                      Append(@, [method |-> method, path |-> path,
                                 file |-> Router(server.file, method, path)])]
    /\ UNCHANGED <<hashVars, codecVars, storeVars, uiVars, unitVars,
                   marks, sidebar, nav, url, queue>>

NextServer ==
    \/ \E file \in {"server.js", "part_001"}, PORT \in {undefined, 8080} :
          Start(file, PORT)
    \/ \E method \in {"GET", "POST"}, path \in RequestPaths :
          Request(method, path)
SpecServer == Init /\ [][NextServer]_vars

\* The fixed routes /, /about, /contact, /books and the files they send.
FixedRoutes ==
    {<<<<>>, <<"index.html">>>>,
     <<<<"about">>, <<"about.html">>>>,
     <<<<"contact">>, <<"contact.html">>>>,
     <<<<"books">>, <<"reader/reader", "reader.html">>>>}
IsAsset(file, path) ==
    \/ Static(<<>>, PublicAssets, "GET", path)
    \/ Static(ReaderMount(file), ReaderAssets, "GET", path)

\* C21: the server listens on PORT, or on 3000 when PORT is unset; GET of
\* /, /about, /contact and /books is answered by the route's file, and a
\* request for any other path that matches no static asset is answered
\* with 404.html.
C21_PortAndRoutes ==
    server.file # "" =>
        /\ server.port = (IF server.PORT # undefined THEN server.PORT ELSE 3000)
        /\ \A k \in 1..Len(server.requests) :
              LET r == server.requests[k] IN
              /\ \A fr \in FixedRoutes :
                    (r.method = "GET" /\ r.path = fr[1]) => r.file = fr[2]
              /\ ((\A fr \in FixedRoutes : r.path # fr[1])
                      /\ ~IsAsset(server.file, r.path))
                    => r.file = <<"404.html">>

----------------------------------------------------------------------------
(* Properties of the summary after submissions from the UI *)

CountKeys == {<<49>>, <<50>>, <<51>>, <<52>>, <<53>>}

\* C22: in every summary delivered by get_rating the five per-value counts
\* are non-negative integers whose sum equals total, and the summary has
\* no counter key other than "1".."5".
C22_CountsSumToTotal ==
    \A c \in CallIds :
        calls[c].pc = "done" =>
            LET r == calls[c].rating IN
            /\ DOMAIN r = SummaryKeys
            /\ \A k \in CountKeys :
                  r[k].kind = "num" /\ r[k].den = 1 /\ r[k].num >= 0
            /\ Num(r[<<49>>].num + r[<<50>>].num + r[<<51>>].num
                     + r[<<52>>].num + r[<<53>>].num)
                   = r[Str(<<"t", "o", "t", "a", "l">>)]

----------------------------------------------------------------------------
(* Bookmarks: Reader.addBookmark / removeBookmark / clearBookmarks and the  *)
(* list kept by BookmarksController                                        *)

Cfis == {1, 2}

\* EPUBJS.Reader.prototype.isBookmarked: bookmarks.indexOf(cfi).
isBookmarked(bookmarks, cfi) ==
    IF \E i \in DOMAIN bookmarks : bookmarks[i] = cfi
    THEN (CHOOSE i \in DOMAIN bookmarks :
              /\ bookmarks[i] = cfi
              /\ \A j \in 1..(i - 1) : bookmarks[j] # cfi) - 1
    ELSE -1

\* array.splice(index, 1), for a 0-based index.
splice(a, index) == SubSeq(a, 1, index) \o SubSeq(a, index + 2, Len(a))

\* BookmarksController's handler of reader:bookmarked: createBookmarkItem
\* gives the item the id bookmark-<counter> and increments the counter.
OnBookmarked(m, cfi) ==
    [m EXCEPT !.items = Append(@, [id |-> m.counter, cfi |-> cfi]),
              !.counter = @ + 1]

\* BookmarksController's handler of reader:unbookmarked:
\* $("#bookmark-" + index).remove().
OnUnbookmarked(m, index) ==
    [m EXCEPT !.items = SelectSeq(@, LAMBDA item : item.id # index)]

\* The record after addBookmark(cfi), the event's handlers included.
addBookmark_push(m, cfi) ==
    [OnBookmarked([m EXCEPT !.bookmarks = Append(@, cfi)], cfi)
        EXCEPT !.n = @ + 1,
               !.last = [op |-> "addBookmark", cfi |-> cfi,
                         event |-> "reader:bookmarked"]]
addBookmark(m, cfi) ==
    LET present == isBookmarked(m.bookmarks, cfi) IN
    IF present > -1
    THEN [m EXCEPT !.n = @ + 1,
                   !.last = [op |-> "addBookmark", cfi |-> cfi, event |-> "none"]]
    ELSE [OnBookmarked([m EXCEPT !.bookmarks = Append(@, cfi)], cfi)
            EXCEPT !.n = @ + 1,
                   !.last = [op |-> "addBookmark", cfi |-> cfi,
                             event |-> "reader:bookmarked"]]

\* The record after removeBookmark(cfi), the event's handlers included.
removeBookmark(m, cfi) ==
    LET bookmark == isBookmarked(m.bookmarks, cfi) IN
    IF bookmark = -1
    THEN [m EXCEPT !.n = @ + 1,
                   !.last = [op |-> "removeBookmark", cfi |-> cfi,
                             event |-> "none"]]
    ELSE [OnUnbookmarked([m EXCEPT !.bookmarks = splice(@, bookmark)], bookmark)
            EXCEPT !.n = @ + 1,
                   !.last = [op |-> "removeBookmark", cfi |-> cfi,
                             event |-> "reader:unbookmarked"]]

AddBookmark(cfi) ==
    /\ marks.n < MaxMarkCalls
    /\ marks' = addBookmark(marks, cfi)
    /\ UNCHANGED <<hashVars, codecVars, storeVars, uiVars, unitVars,
                   server, sidebar, nav, url, queue>>

RemoveBookmark(cfi) ==
    /\ marks.n < MaxMarkCalls
    /\ marks' = removeBookmark(marks, cfi)
    /\ UNCHANGED <<hashVars, codecVars, storeVars, uiVars, unitVars,
                   server, sidebar, nav, url, queue>>

\* clearBookmarks replaces the array and triggers nothing.
ClearBookmarks ==
    /\ marks.n < MaxMarkCalls
    /\ marks' = [marks EXCEPT !.bookmarks = <<>>, !.n = @ + 1, !.cleared = TRUE,
                              !.last = [op |-> "clearBookmarks", cfi |-> 0,
                                        event |-> "none"]]
    /\ UNCHANGED <<hashVars, codecVars, storeVars, uiVars, unitVars,
                   server, sidebar, nav, url, queue>>

\* $bookmark click, with the cfi of the current location.
BookmarkClick(cfi) ==
    /\ marks.n < MaxMarkCalls
    /\ marks' = IF isBookmarked(marks.bookmarks, cfi) = -1
                THEN addBookmark(marks, cfi)
                ELSE removeBookmark(marks, cfi)
    /\ UNCHANGED <<hashVars, codecVars, storeVars, uiVars, unitVars,
                   server, sidebar, nav, url, queue>>

NextMarks ==
    \/ \E cfi \in Cfis : AddBookmark(cfi)
    \/ \E cfi \in Cfis : RemoveBookmark(cfi)
    \/ \E cfi \in Cfis : BookmarkClick(cfi)
    \/ ClearBookmarks
SpecMarks == Init /\ [][NextMarks]_vars

ItemCfis == [k \in 1..Len(marks.items) |-> marks.items[k].cfi]

\* C23: as long as only addBookmark and removeBookmark have been called,
\* the list items shown correspond exactly to the entries of
\* settings.bookmarks, in order.
C23_ItemsMatchBookmarks ==
    ~marks.cleared => ItemCfis = marks.bookmarks

\* C24: settings.bookmarks never contains a cfi twice; addBookmark of a cfi
\* already present and removeBookmark of a cfi not present leave the list
\* unchanged and trigger no event.
C24_NoDuplicates ==
    /\ [](\A i, j \in DOMAIN marks.bookmarks :
              marks.bookmarks[i] = marks.bookmarks[j] => i = j)
    /\ [][(/\ marks'.n = marks.n + 1
           /\ \/ /\ marks'.last.op = "addBookmark"
                 /\ isBookmarked(marks.bookmarks, marks'.last.cfi) > -1
              \/ /\ marks'.last.op = "removeBookmark"
                 /\ isBookmarked(marks.bookmarks, marks'.last.cfi) = -1)
             => /\ marks'.bookmarks = marks.bookmarks
                /\ marks'.items = marks.items
                /\ marks'.last.event = "none"]_vars
C24_Witness ==
    /\ marks.last = [op |-> "addBookmark", cfi |-> 2, event |-> "none"]
    /\ marks.bookmarks = <<1, 2>>

----------------------------------------------------------------------------
(* The sidebar: SidebarController.show / hide, ReaderController.slideIn /   *)
(* slideOut and the slider's click handler                                  *)

\* slideOut returns early when rendition.currentLocation() is missing.
\* closed stands for the class of $main that settings.sidebarReflow selects
\* ('single' or 'closed').
slideOut(s) == IF ~s.located THEN s ELSE [s EXCEPT !.closed = TRUE]

\* slideIn reads rendition.currentLocation().start.cfi first: without a
\* location that is a TypeError, which ends the caller as well.
slideIn(s) ==
    IF ~s.located THEN [s EXCEPT !.threw = TRUE] ELSE [s EXCEPT !.closed = FALSE]

show(s) ==
    [slideOut([s EXCEPT !.sidebarOpen = TRUE, !.threw = FALSE])
        EXCEPT !.open = TRUE]

hide(s) ==
    LET t == slideIn([s EXCEPT !.sidebarOpen = FALSE, !.threw = FALSE]) IN
    IF t.threw THEN t ELSE [t EXCEPT !.open = FALSE]

\* The rendition reports its first location.
Located ==
    /\ ~sidebar.located
    /\ sidebar' = [sidebar EXCEPT !.located = TRUE]
    /\ UNCHANGED <<hashVars, codecVars, storeVars, uiVars, unitVars,
                   server, marks, nav, url, queue>>

Show ==
    /\ sidebar.n < MaxSidebarCalls
    /\ sidebar' = [show(sidebar) EXCEPT !.n = @ + 1]
    /\ UNCHANGED <<hashVars, codecVars, storeVars, uiVars, unitVars,
                   server, marks, nav, url, queue>>

Hide ==
    /\ sidebar.n < MaxSidebarCalls
    /\ sidebar' = [hide(sidebar) EXCEPT !.n = @ + 1]
    /\ UNCHANGED <<hashVars, codecVars, storeVars, uiVars, unitVars,
                   server, marks, nav, url, queue>>

\* $slider click: the icon classes are swapped after hide or show returns.
SliderClick ==
    /\ sidebar.n < MaxSidebarCalls
    /\ sidebar' =
          IF sidebar.sidebarOpen
          THEN LET t == hide(sidebar) IN
               IF t.threw THEN [t EXCEPT !.n = @ + 1]
               ELSE [t EXCEPT !.n = @ + 1, !.slider = "icon-menu"]
          ELSE [show(sidebar) EXCEPT !.n = @ + 1, !.slider = "icon-right"]
    /\ UNCHANGED <<hashVars, codecVars, storeVars, uiVars, unitVars,
                   server, marks, nav, url, queue>>

NextSidebar == Located \/ Show \/ Hide \/ SliderClick
SpecSidebar == Init /\ [][NextSidebar]_vars

\* C25: reader.sidebarOpen is true exactly when the sidebar element carries
\* the class 'open', also while the rendition has no current location.
C25_OpenIffClass == sidebar.sidebarOpen <=> sidebar.open

----------------------------------------------------------------------------
(* Navigation: arrowKeys and the click handlers of $next and $prev *)

\* The rendition method a handler calls: forward is rendition.next() unless
\* book.package.metadata.direction is "rtl".
Forward(direction) == IF direction = "rtl" THEN "prev" ELSE "next"
Backward(direction) == IF direction = "rtl" THEN "next" ELSE "prev"

\* The record after the handler has made the rendition call.
Navigate(v, call, source, keyCode) ==
    [v EXCEPT !.next = IF call = "next" THEN @ + 1 ELSE @,
              !.prev = IF call = "prev" THEN @ + 1 ELSE @,
              !.n = @ + 1,
              !.last = [source |-> source, keyCode |-> keyCode,
                        calls |-> <<call>>,
                        wasDisabled |-> source \in disabled]]

\* The book's metadata becomes available.
BookOpened(direction) ==
    /\ nav.direction = "unopened"
    /\ nav' = [nav EXCEPT !.direction = direction]
    /\ UNCHANGED <<hashVars, codecVars, storeVars, uiVars, unitVars,
                   server, marks, sidebar, url, queue>>

\* Variant: a keydown is dropped while keylock is true.
ArrowKeys_locked(keyCode) ==
    /\ nav.direction # "unopened"
    /\ nav.n < MaxNavEvents
    /\ nav' =
          IF keyCode \in {37, 39} /\ ~nav.keylock
          THEN [Navigate(nav, IF keyCode = 37 THEN Backward(nav.direction)
                              ELSE Forward(nav.direction), "key", keyCode)
                  EXCEPT !.keylock = TRUE,
                         !.active = @ \cup {IF keyCode = 37 THEN "prev" ELSE "next"},
                         !.timers = Append(@, IF keyCode = 37 THEN "prev" ELSE "next")]
          ELSE [nav EXCEPT !.n = @ + 1,
                           !.last = [source |-> "key", keyCode |-> keyCode,
                                     calls |-> <<>>, wasDisabled |-> FALSE]]
    /\ UNCHANGED <<hashVars, codecVars, storeVars, uiVars, unitVars,
                   server, marks, sidebar, url, queue>>

\* arrowKeys(e) on a keydown event.
ArrowKeys(keyCode) ==
    /\ nav.direction # "unopened"
    /\ nav.n < MaxNavEvents
    /\ nav' =
          IF keyCode = 37
          THEN [Navigate(nav, Backward(nav.direction), "key", keyCode)
                  EXCEPT !.keylock = TRUE,
                         !.active = @ \cup {"prev"},
                         !.timers = Append(@, "prev")]
          ELSE IF keyCode = 39
          THEN [Navigate(nav, Forward(nav.direction), "key", keyCode)
                  EXCEPT !.keylock = TRUE,
                         !.active = @ \cup {"next"},
                         !.timers = Append(@, "next")]
          ELSE [nav EXCEPT !.n = @ + 1,
                           !.last = [source |-> "key", keyCode |-> keyCode,
                                     calls |-> <<>>, wasDisabled |-> FALSE]]
    /\ UNCHANGED <<hashVars, codecVars, storeVars, uiVars, unitVars,
                   server, marks, sidebar, url, queue>>

\* The oldest 100 ms timer set by arrowKeys fires.
KeyTimeout ==
    /\ nav.timers # <<>>
    /\ nav' = [nav EXCEPT !.keylock = FALSE,
                          !.active = @ \ {Head(nav.timers)},
                          !.timers = Tail(@)]
    /\ UNCHANGED <<hashVars, codecVars, storeVars, uiVars, unitVars,
                   server, marks, sidebar, url, queue>>

\* $next click and $prev click.
NextClick ==
    /\ nav.direction # "unopened"
    /\ nav.n < MaxNavEvents
    /\ nav' = Navigate(nav, Forward(nav.direction), "next", 0)
    /\ UNCHANGED <<hashVars, codecVars, storeVars, uiVars, unitVars,
                   server, marks, sidebar, url, queue>>

PrevClick ==
    /\ nav.direction # "unopened"
    /\ nav.n < MaxNavEvents
    /\ nav' = Navigate(nav, Backward(nav.direction), "prev", 0)
    /\ UNCHANGED <<hashVars, codecVars, storeVars, uiVars, unitVars,
                   server, marks, sidebar, url, queue>>

NextNav ==
    \/ \E direction \in {"ltr", "rtl"} : BookOpened(direction)
    \/ \E keyCode \in {37, 39, 13} : ArrowKeys(keyCode)
    \/ KeyTimeout
    \/ NextClick
    \/ PrevClick
    \/ \E atStart, atEnd \in BOOLEAN : Relocated(1, MaxTotal, atStart, atEnd)
SpecNav == Init /\ [][NextNav]_vars


\* The rendition calls one key or click event is to make.
ExpectedCalls(direction, source, keyCode) ==
    IF (source = "key" /\ keyCode = 39) \/ source = "next"
    THEN <<IF direction = "rtl" THEN "prev" ELSE "next">>
    ELSE IF (source = "key" /\ keyCode = 37) \/ source = "prev"
    THEN <<IF direction = "rtl" THEN "next" ELSE "prev">>
    ELSE <<>>

\* C26: every keydown with keyCode 37 or 39 causes exactly one rendition
\* call, also while keylock is true; key 39 and the next button call
\* rendition.next() unless the direction is 'rtl', when they call
\* rendition.prev(); key 37 and the prev button do the opposite; any other
\* keyCode causes no call.
C26_OneCallPerKey ==
    [][nav'.n = nav.n + 1
          => /\ nav'.last.calls
                   = ExpectedCalls(nav.direction, nav'.last.source, nav'.last.keyCode)
             /\ nav'.next + nav'.prev = nav.next + nav.prev + Len(nav'.last.calls)
             /\ nav'.next = nav.next + (IF nav'.last.calls = <<"next">> THEN 1 ELSE 0)]_vars
C26_Witness ==
    /\ nav.direction = "rtl"
    /\ nav.keylock /\ Len(nav.timers) = 2
    /\ nav.last = [source |-> "key", keyCode |-> 39, calls |-> <<"prev">>,
                   wasDisabled |-> FALSE]
    /\ nav.prev = 2

\* C27: the class 'disabled' on the prev and next buttons is never removed:
\* a relocated event adds it to prev when atStart and to next when atEnd,
\* no event takes it away, and the click handler of a button that carries
\* it still makes its rendition call.
C27_DisabledMonotone ==
    /\ [][disabled \subseteq disabled']_vars
    /\ [][\A atStart, atEnd \in BOOLEAN :
             Relocated(1, MaxTotal, atStart, atEnd)
                => /\ (atStart => "prev" \in disabled')
                   /\ (atEnd => "next" \in disabled')]_vars
    /\ [][(nav'.n = nav.n + 1 /\ nav'.last.source \in disabled)
             => Len(nav'.last.calls) = 1]_vars
C27_Witness ==
    /\ disabled = {"prev", "next"}
    /\ nav.last.source = "next" /\ nav.last.wasDisabled
    /\ nav.last.calls = <<"next">>
    /\ nav.next = 1

----------------------------------------------------------------------------
(* getBookPath: the book path read from window.location.href *)

\* A URL is a sequence of symbols: the separators "?", "&", "=", "#" and
\* names that stand for runs of other characters.

\* str.split(sep) for a one-character separator.
RECURSIVE splitFrom(_, _, _, _)
splitFrom(str, sep, piece, pieces) ==
    IF str = <<>> THEN Append(pieces, piece)
    ELSE IF Head(str) = sep THEN splitFrom(Tail(str), sep, <<>>, Append(pieces, piece))
    ELSE splitFrom(Tail(str), sep, Append(piece, Head(str)), pieces)
split(str, sep) == splitFrom(str, sep, <<>>, <<>>)

\* The loop over params: pairs[pair[0]] = pair[1], a later parameter
\* replacing an earlier one of the same name; pair[1] is undefined for a
\* parameter without "=".
RECURSIVE pairsOf(_, _)
pairsOf(params, pairs) ==
    IF params = <<>> THEN pairs
    ELSE LET pair == split(Head(params), "=")
             value == IF Len(pair) >= 2 THEN <<pair[2]>> ELSE <<>>
         IN  pairsOf(Tail(params),
                     [k \in DOMAIN pairs \cup {pair[1]} |->
                         IF k = pair[1] THEN value ELSE pairs[k]])

\* getBookPath(): {} without a query, a TypeError when pairs['bookPath'] is
\* undefined, the text before the first '#' of its value otherwise.
getBookPath(href) ==
    LET parts == split(href, "?")
        query == IF Len(parts) >= 2 THEN parts[2] ELSE <<>>
    IN  IF query = <<>> THEN [kind |-> "object", str |-> <<>>]
        ELSE LET pairs == pairsOf(split(query, "&"), <<>>)
                 key == <<"bookPath">>
             IN  IF key \notin DOMAIN pairs \/ pairs[key] = <<>>
                 THEN [kind |-> "TypeError", str |-> <<>>]
                 ELSE [kind |-> "string", str |-> split(pairs[key][1], "#")[1]]

Queries ==
    {<<"bookPath", "=", "x">>,
     <<"bookPath", "=", "x", "&", "a", "=", "1">>,
     <<"a", "=", "1", "&", "bookPath", "=", "x">>,
     <<"a", "=", "1", "&", "bookPath", "=", "x", "&", "b", "=", "2">>,
     <<"a", "=", "1">>}
Fragments ==
    UNION {[1..n -> {"epubcfi", "&", "=", "?", "#", "bookPath", "y"}] :
              n \in 0..MaxFragmentLen}

\* getBookPath() on the page URL with the given query, once without a
\* fragment and once with the fragment.
GetBookPath(query, fragment) ==
    /\ url.plain.kind = "none"
    /\ url' = [query |-> query, fragment |-> fragment,
               plain |-> getBookPath(<<"reader.html", "?">> \o query),
               marked |-> getBookPath(<<"reader.html", "?">> \o query
                                          \o <<"#">> \o fragment)]
    /\ UNCHANGED <<hashVars, codecVars, storeVars, uiVars, unitVars,
                   server, marks, sidebar, nav, queue>>

NextUrl ==
    /\ url.plain.kind = "none"
    /\ \E query \in Queries, fragment \in Fragments : GetBookPath(query, fragment)
SpecUrl == Init /\ [][NextUrl]_vars

\* C28: for a page URL whose query has a bookPath parameter, the book path
\* returned by getBookPath does not depend on the URL's fragment, whatever
\* the position of bookPath among the parameters.
C28_FragmentIndependent ==
    (\E k \in 1..Len(url.query) : url.query[k] = "bookPath")
        => url.marked = url.plain

----------------------------------------------------------------------------
(* EPUBJS.core.queue *)

\* An item is numbered in enqueue order; spawn is the number of further
\* items its function enqueues, one inside the other, when it is run.

\* scope[inwait.funcName].apply(...): the function runs and may enqueue.
apply(s, item) ==
    LET done == [s EXCEPT !.ran = Append(@, item.id)] IN
    IF item.spawn = 0 THEN done
    ELSE [done EXCEPT !.q = Append(@, [id |-> s.made + 1, spawn |-> item.spawn - 1]),
                      !.made = @ + 1]

\* Variant: dequeue takes the newest item.
dequeue_pop(s) ==
    IF s.q = <<>> THEN s
    ELSE apply([s EXCEPT !.q = SubSeq(@, 1, Len(@) - 1)], s.q[Len(s.q)])
dequeue(s) ==
    IF s.q = <<>> THEN s
    ELSE apply([s EXCEPT !.q = Tail(@)], Head(s.q))

RECURSIVE flush(_)
flush(s) == IF s.q = <<>> THEN s ELSE flush(dequeue(s))

Enqueue(spawn) ==
    /\ queue.made < MaxItems
    /\ queue' = [queue EXCEPT !.q = Append(@, [id |-> queue.made + 1, spawn |-> spawn]),
                              !.made = @ + 1, !.last = "enqueue"]
    /\ UNCHANGED <<hashVars, codecVars, storeVars, uiVars, unitVars,
                   server, marks, sidebar, nav, url>>

Dequeue ==
    /\ queue' = [dequeue(queue) EXCEPT !.last = "dequeue"]
    /\ UNCHANGED <<hashVars, codecVars, storeVars, uiVars, unitVars,
                   server, marks, sidebar, nav, url>>

Flush ==
    /\ queue' = [flush(queue) EXCEPT !.last = "flush"]
    /\ UNCHANGED <<hashVars, codecVars, storeVars, uiVars, unitVars,
                   server, marks, sidebar, nav, url>>

Clear ==
    /\ queue' = [queue EXCEPT !.q = <<>>, !.last = "clear"]
    /\ UNCHANGED <<hashVars, codecVars, storeVars, uiVars, unitVars,
                   server, marks, sidebar, nav, url>>

NextQueue ==
    \/ \E spawn \in 0..MaxSpawn : Enqueue(spawn)
    \/ Dequeue
    \/ Flush
    \/ Clear
SpecQueue == Init /\ [][NextQueue]_vars

Ids(q) == [k \in 1..Len(q) |-> q[k].id]
Fresh(from, to) == [k \in 1..(to - from) |-> from + k]

\* C30: the queue is FIFO: dequeue runs the oldest item once and removes
\* it, dequeue on an empty queue does nothing, clear empties the queue
\* without running anything, and flush leaves the queue empty having run
\* every item enqueued before or during it exactly once, in enqueue order.
C30_Fifo ==
    /\ [](\A i, j \in 1..Len(queue.ran) : i < j => queue.ran[i] < queue.ran[j])
    /\ [][(queue' # queue /\ queue'.last = "dequeue")
             => IF queue.q = <<>>
                THEN /\ queue'.q = <<>>
                     /\ queue'.ran = queue.ran
                     /\ queue'.made = queue.made
                ELSE /\ queue'.ran = Append(queue.ran, Head(queue.q).id)
                     /\ Ids(queue'.q)
                           = Ids(Tail(queue.q)) \o Fresh(queue.made, queue'.made)]_vars
    /\ [][(queue' # queue /\ queue'.last = "clear")
             => /\ queue'.q = <<>>
                /\ queue'.ran = queue.ran
                /\ queue'.made = queue.made]_vars
    /\ [][(queue' # queue /\ queue'.last = "flush")
             => /\ queue'.q = <<>>
                /\ queue'.ran
                      = queue.ran \o Ids(queue.q) \o Fresh(queue.made, queue'.made)]_vars
C30_Witness ==
    /\ queue.last = "flush"
    /\ queue.q = <<>>
    /\ queue.made = MaxItems + 1
    /\ queue.ran = Fresh(0, MaxItems + 1)

----------------------------------------------------------------------------
(* Repeated submissions from the reader page *)

\* The reader page on one book: relocation events, up to MaxClicks clicks on
\* the submit control and the completions of the submissions.
NextClicks ==
    \/ \E total \in 1..MaxTotal, page \in 1..MaxTotal, atStart \in BOOLEAN, atEnd \in BOOLEAN :
          page <= total /\ Relocated(page, total, atStart, atEnd)
    \/ /\ Len(sends) < MaxClicks
       /\ \E val \in RateValues : VotingSubmit(1, val)
    \/ \E s \in 1..MaxClicks, error \in BOOLEAN : SendTransferDone(s, error)
SpecClicks == Init /\ [][NextClicks]_vars

\* The clicks so far: each click calls hashCreate once.
Clicks == SumOver(hashCalls, BookPaths)

====
